---- MODULE Spec2Model ----
(***************************************************************************)
(* Real-time prediction synchronisation: the client collection of          *)
(* prediction records fed by a poll, a push socket and a local simulator,  *)
(* and the file-backed server that answers the poll and pushes changes.    *)
(*                                                                         *)
(* The repository holds three client implementations of the collection:    *)
(*   "provider"  PredictionsProvider (context/PredictionsContext):         *)
(*               poll + stableMerge, 5 s tick, localStorage cache          *)
(*   "hook"      usePredictions (hooks/usePrediction.js): poll that        *)
(*               replaces the collection, push socket with reconnect       *)
(*   "merge"     the pure function stableMerge applied to drawn inputs     *)
(* and "server" runs the API service alone, with peers that come and go;   *)
(* "start" is the provider before its first render.                        *)
(* The variable impl says which one a behaviour runs.                      *)
(*                                                                         *)
(* Numbers that are fractions in the source (scores, sentiments, jitter)   *)
(* are integers in hundredths: 0.55 is 55, 1.5 is 150.  Time stamps        *)
(* (timestamp, lastUpdate, savedAt) are left out: nothing reads them.      *)
(***************************************************************************)
EXTENDS Integers, Sequences, FiniteSets, TLC

VARIABLES
    impl,          \* which client implementation this behaviour runs
    mounted,       \* "no" before the effects ran, "yes", "gone" after cleanup
    predictions,   \* useState predictions: the client collection
    loading,       \* useState loading
    error,         \* useState error (NoError is null)
    connected,     \* useState connected (hook)
    cache,         \* localStorage slot STORAGE_KEY (provider)
    inflight,      \* poll requests sent and not yet settled
    apiTimer,      \* the poll setInterval is armed
    tickTimer,     \* the 5 s tick setInterval is armed (provider)
    ticks,         \* tick firings so far (bounded by MaxTicks)
    files,         \* server: PREDICTIONS_DIR, file name ticker -> content
    writes,        \* file writes so far (bounded by MaxWrites)
    sockets,       \* hook: readyState of every WebSocket the client created
    wsRef,         \* hook: wsRef.current (0 is null)
    timers,        \* hook: pending reconnect setTimeout handles
    reconnectTimeoutRef,  \* hook: reconnectTimeoutRef.current (0 is null)
    changed,       \* server: files with a chokidar 'change' event not yet handled
    inbox,         \* push messages sent to a client socket and not yet handled
    foreign,       \* push messages so far that this server did not send
    accepting,     \* the server has begun to accept connections for good
    clients,       \* server: the registry of connected peers (the Set clients)
    last,          \* history: the handler that ran last, the collection before it
                   \* ran and the batch or message it was given
    incoming,      \* impl "merge": the batch X
    once,          \* impl "merge": stableMerge(C, X) once computed
    phase          \* impl "merge": how many times stableMerge was applied

vars == <<impl, mounted, predictions, loading, error, connected, cache,
          inflight, apiTimer, tickTimer, ticks, files, writes,
          sockets, wsRef, timers, reconnectTimeoutRef, changed, inbox, foreign,
          accepting, clients, last, incoming, once, phase>>

----------------------------------------------------------------------------
(* Bounds of the model *)

MaxInflight == 1
MaxTicks == 1
MaxWrites == 1
MaxBatch == 2
MaxSockets == 2
MaxTimers == 2
MaxInbox == 1
MaxForeign == 1

\* the BUY threshold of signalFromScore, 0.12
BuyThreshold == 12

----------------------------------------------------------------------------
(* JavaScript values *)

\* undefined / missing, for a string-valued field
Undef == "undefined"
\* undefined / missing, for a number-valued field
UndefNum == 0 - 99999
\* undefined / null, for an object-valued field or an array element
Undefined == [undefined |-> TRUE]
\* useState(null) of error
NoError == "null"

\* JS truthiness of a string-valued field (x || y)
Truthy(s) == s # Undef /\ s # ""

Abs(n) == IF n < 0 THEN 0 - n ELSE n

Range(s) == {s[i] : i \in 1..Len(s)}

----------------------------------------------------------------------------
(* Payloads: what a prediction file may hold *)

Tickers == {"AAPL", "MSFT"}

\* fs.readdir lists the directory in a fixed order
FileOrder == <<"AAPL", "MSFT">>

OtherTicker(t) == IF t = "AAPL" THEN "MSFT" ELSE "AAPL"

\* COMPANY_MAP[ticker] || ticker
CompanyName(t) ==
    CASE t = "AAPL" -> "Apple"
      [] t = "MSFT" -> "Microsoft"
      [] OTHER -> t

PredA == [final_signal |-> "BUY", direction |-> "BULLISH", combined_score |-> 20,
          confidence_level |-> "MEDIUM", reasoning |-> "x"]
PredB == [final_signal |-> "STRONG_BUY", direction |-> "BULLISH", combined_score |-> 50,
          confidence_level |-> "HIGH", reasoning |-> "y"]
\* a prediction whose combined_score is 1.2
PredOut == [final_signal |-> "STRONG_BUY", direction |-> "BULLISH", combined_score |-> 120,
            confidence_level |-> "HIGH", reasoning |-> "z"]

RawItem(t, cn, arts, sent, pred) ==
    [ticker |-> t, company_name |-> cn, total_articles |-> arts,
     article_count |-> UndefNum, average_sentiment |-> sent, prediction |-> pred]

\* a file that does not exist, and one whose text JSON.parse rejects
Absent == [absent |-> TRUE]
Corrupt == [corrupt |-> TRUE]
\* PREDICTIONS_DIR itself does not exist
NoDirectory == [nodirectory |-> TRUE]

\* the parsed contents a file named {t}_prediction.json may have
FileContents(t) ==
    { RawItem(t, Undef, 10, 10, PredA),
      RawItem(t, Undef, 40, 30, PredB),
      RawItem(Undef, Undef, 10, 10, PredA),           \* no ticker field
      RawItem(OtherTicker(t), Undef, 10, 10, PredA),  \* another file's ticker
      RawItem(t, Undef, 10, 10, Undefined),           \* no prediction field
      RawItem(t, Undef, 250, 25000, PredOut) }        \* 250 articles, sentiment 250

----------------------------------------------------------------------------
(* context/PredictionsContext: pure functions *)

\* mutant of clamp: the bounds are not applied
clampOff(v, min, max) == v

clamp(v, min, max) == IF v < min THEN min ELSE IF v > max THEN max ELSE v

\* toNum: a finite number is kept, anything else is 0
toNum(v) == IF v = UndefNum THEN 0 ELSE v

\* |n| > 1.5 is read as a percentage and divided by 100
normalizeScore01(v) ==
    LET n == toNum(v)
    IN IF Abs(n) > 150
       THEN (IF n < 0 THEN 0 - ((0 - n) \div 100) ELSE n \div 100)
       ELSE n

\* item?.prediction && typeof item.prediction === "object" ? item.prediction : null
PredObjOf(item) ==
    IF item = Undefined THEN Undefined ELSE item.prediction

OrStr(s, dflt) == IF Truthy(s) THEN s ELSE dflt

normalizeOne(item) ==
    LET predObj == PredObjOf(item)
        has == predObj # Undefined
        tk == IF item = Undefined THEN Undef ELSE item.ticker
        cn == IF item = Undefined THEN Undef ELSE item.company_name
        ta == IF item = Undefined THEN UndefNum ELSE item.total_articles
        ac == IF item = Undefined THEN UndefNum ELSE item.article_count
        as == IF item = Undefined THEN UndefNum ELSE item.average_sentiment
    IN [ticker |-> OrStr(tk, "N/A"),
        company_name |-> OrStr(cn, OrStr(tk, "N/A")),
        total_articles |-> IF ta # UndefNum THEN ta
                           ELSE IF ac # UndefNum THEN ac ELSE 0,
        average_sentiment |-> normalizeScore01(as),
        prediction |->
          [final_signal |-> IF has THEN OrStr(predObj.final_signal, "HOLD") ELSE "HOLD",
           direction |-> IF has THEN OrStr(predObj.direction, "NEUTRAL") ELSE "NEUTRAL",
           combined_score |-> normalizeScore01(IF has THEN predObj.combined_score
                                               ELSE UndefNum),
           confidence_level |-> IF has THEN OrStr(predObj.confidence_level, "LOW") ELSE "LOW",
           reasoning |-> IF has THEN OrStr(predObj.reasoning, "Insufficient data")
                         ELSE "Insufficient data"],
        _simulated |-> TRUE]

\* mutant of signalFromScore: the thresholds themselves are left out
signalFromScoreStrict(score) ==
    IF score > 55 THEN "STRONG_BUY"
    ELSE IF score > 12 THEN "BUY"
    ELSE IF score < 0 - 55 THEN "STRONG_SELL"
    ELSE IF score < 0 - 12 THEN "SELL"
    ELSE "HOLD"

signalFromScore(score) ==
    IF score >= 55 THEN "STRONG_BUY"
    ELSE IF score >= 12 THEN "BUY"
    ELSE IF score <= 0 - 55 THEN "STRONG_SELL"
    ELSE IF score <= 0 - 12 THEN "SELL"
    ELSE "HOLD"

directionFromSignal(sig) ==
    IF sig \in {"BUY", "STRONG_BUY"} THEN "BULLISH"
    ELSE IF sig \in {"SELL", "STRONG_SELL"} THEN "BEARISH"
    ELSE "NEUTRAL"

confidenceFromAbs(absScore) ==
    IF absScore >= 65 THEN "HIGH"
    ELSE IF absScore >= 25 THEN "MEDIUM"
    ELSE "LOW"

\* the reasoning template; the article count it embeds is kept beside the text
tickReasoning(sig, newArticles) ==
    IF sig = "HOLD" THEN "Neutral bias | Monitoring"
    ELSE IF sig \in {"BUY", "STRONG_BUY"} THEN "Positive sentiment | Based on n articles"
    ELSE "Negative sentiment | Based on n articles"

\* One draw of Math.random() per jittered field: j.ds is rand(-0.12, 0.12),
\* j.dn is rand(-0.08, 0.08), j.da is what Math.round(base + rand(-3, 6)) adds.
Jitters ==
    { [ds |-> 0 - 12, dn |-> 0 - 8, da |-> 0 - 3],
      [ds |-> 11, dn |-> 7, da |-> 6] }

\* mutant of applyTick: the record is rebuilt and its name left to default
applyTickRenamed(p, j) ==
    [p EXCEPT !.total_articles = clamp(p.total_articles + j.da, 0, 200),
              !.company_name = p.ticker]

applyTick(p, j) ==
    LET newScore == clamp(p.prediction.combined_score + j.ds, 0 - 99, 99)
        newSent == clamp(p.average_sentiment + j.dn, 0 - 99, 99)
        sig == signalFromScore(newScore)
        dir == directionFromSignal(sig)
        conf == confidenceFromAbs(Abs(newScore))
        newArticles == clamp(p.total_articles + j.da, 0, 200)
    IN [p EXCEPT !.total_articles = newArticles,
                 !.average_sentiment = newSent,
                 !.prediction = [p.prediction EXCEPT
                                   !.combined_score = newScore,
                                   !.final_signal = sig,
                                   !.direction = dir,
                                   !.confidence_level = conf,
                                   !.reasoning = tickReasoning(sig, newArticles)],
                 !._simulated = TRUE]

\* new Map(prevList.map(x => [x.ticker, x])).get(t): the last entry wins
PrevGet(prevList, t) ==
    LET hits == {i \in 1..Len(prevList) : prevList[i].ticker = t}
    IN IF hits = {} THEN Undefined
       ELSE prevList[CHOOSE i \in hits : \A k \in hits : k <= i]

\* mutant of MergeOne: the incoming record replaces the held one
MergeOneIncomingWins(prevList, apiItem) == normalizeOne(apiItem)

\* what stableMerge makes of one incoming item
MergeOne(prevList, apiItem) ==
    LET normalizedApi == normalizeOne(apiItem)
        prev == PrevGet(prevList, normalizedApi.ticker)
    IN IF prev = Undefined THEN normalizedApi
       ELSE [prev EXCEPT !.ticker = normalizedApi.ticker,
                         !.company_name = OrStr(normalizedApi.company_name,
                                                prev.company_name)]

stableMerge(prevList, apiList) ==
    LET merged == [i \in 1..Len(apiList) |-> MergeOne(prevList, apiList[i])]
        apiTickers == {merged[i].ticker : i \in 1..Len(merged)}
        extra(p) == p.ticker \notin apiTickers
    IN merged \o SelectSeq(prevList, extra)

----------------------------------------------------------------------------
(* localStorage cache *)

\* what localStorage.getItem(STORAGE_KEY) may find.  A slot written by persist
\* is [predictions |-> list]: the records persist writes hold strings, finite
\* numbers and booleans only, which JSON.stringify and JSON.parse give back
\* unchanged, and savedAt is never read.
NoCache == [absent |-> TRUE]                \* null: nothing stored
EmptyRaw == [empty |-> TRUE]                \* the empty string
CorruptCache == [corrupt |-> TRUE]          \* JSON.parse throws
ParsedFalsy == [parsed |-> "falsy"]         \* "null", "0", "false"
ParsedScalar == [parsed |-> "scalar"]       \* "5", "true", "\"abc\""
ParsedArray == [parsed |-> "array"]         \* a bare array "[...]"
NoPredictions == [parsed |-> "object"]      \* "{}": no predictions field
PredictionsNotArray == [notarray |-> TRUE]  \* {"predictions": "x"}

\* persist: the slot holds {predictions, savedAt}
persist(preds) == [predictions |-> preds]

\* a slot that holds list in a storage whose quota is used up:
\* localStorage.setItem throws QuotaExceededError
QuotaFull(list) == [predictions |-> list, full |-> TRUE]

IsFull(slot) == "full" \in DOMAIN slot

\* persist as a whole: try { setItem } catch { ignore }: a throwing
\* setItem leaves the slot as it was
setItem(slot, preds) == IF IsFull(slot) THEN slot ELSE persist(preds)

\* loadPersisted: null unless the slot parses to an object with an array
loadPersisted(slot) ==
    IF slot \in {NoCache, EmptyRaw} THEN Undefined        \* if (!raw) return null
    ELSE IF slot = CorruptCache THEN Undefined             \* catch { return null }
    ELSE IF slot = ParsedFalsy THEN Undefined              \* !parsed
    ELSE IF slot \in {ParsedScalar, ParsedArray, NoPredictions, PredictionsNotArray}
         THEN Undefined                                    \* !Array.isArray(parsed.predictions)
    ELSE [list |-> slot.predictions]

\* mutant of InitialPredictions: saved.length > 1
InitialPredictionsOverOne(slot) ==
    LET saved == loadPersisted(slot)
    IN IF saved # Undefined /\ Len(saved.list) > 1 THEN saved.list ELSE <<>>

\* useState initialiser: saved && saved.length ? saved : []
InitialPredictions(slot) ==
    LET saved == loadPersisted(slot)
    IN IF saved # Undefined /\ Len(saved.list) > 0 THEN saved.list ELSE <<>>

----------------------------------------------------------------------------
(* api_service/server.js: GET /api/predictions/daily *)

\* what one file contributes to the response
DailyEntry(fs, name) ==
    LET pred == fs[name]
    IN IF pred = Absent \/ pred = Corrupt THEN <<>>
       ELSE IF Truthy(pred.ticker) /\ pred.prediction # Undefined
            THEN << [pred EXCEPT !.company_name = CompanyName(name)] >>
            ELSE <<>>

RECURSIVE DailyFrom(_, _)
DailyFrom(fs, i) ==
    IF i > Len(FileOrder) THEN <<>>
    ELSE DailyEntry(fs, FileOrder[i]) \o DailyFrom(fs, i + 1)

\* res.json({predictions, ...}).predictions
DailyPredictions(fs) == DailyFrom(fs, 1)

AllWritten(fs) == \A t \in Tickers : fs[t] # Absent

\* the handler's response: readdir of a missing directory rejects and the
\* outer catch answers res.status(500).json({error: ...})
GetDaily(fs) ==
    IF fs = NoDirectory
    THEN [status |-> 500, predictions |-> Undefined,
          error |-> "Failed to load predictions"]
    ELSE [status |-> 200, predictions |-> DailyPredictions(fs), error |-> Undef]

----------------------------------------------------------------------------
(* Requests in flight: GET /predictions/daily sent by the client *)

\* A request in flight carries the answer of the server's handler, which read
\* the directory when the request reached it: {predictions: [...], count, timestamp}
Answered(list) == [predictions |-> list]

RemoveAt(s, i) == [k \in 1..(Len(s) - 1) |-> IF k < i THEN s[k] ELSE s[k + 1]]

clientVars == <<mounted, predictions, loading, error, connected, cache,
                apiTimer, tickTimer, ticks>>
socketVars == <<sockets, wsRef, timers, reconnectTimeoutRef>>
pushVars == <<changed, inbox, foreign>>
mergeVars == <<incoming, once, phase>>
serverVars == <<files, writes, accepting, clients>>

\* the history variable after the handler named op ran on input x
NoInput == [none |-> TRUE]
Did(op) == last' = [op |-> op, before |-> predictions, input |-> NoInput]
DidWith(op, x) == last' = [op |-> op, before |-> predictions, input |-> x]

----------------------------------------------------------------------------
(* The server and the outside world *)

\* the data processor writes (or rewrites) one prediction file
FileWrite(t, c) ==
    /\ impl \in {"provider", "hook", "server"}
    /\ writes < MaxWrites
    /\ files # NoDirectory
    /\ files[t] # c
    /\ files' = [files EXCEPT ![t] = c]
    /\ writes' = writes + 1
    \* chokidar raises 'change' for a file that existed, 'add' for a new one;
    \* only 'change' has a handler, and the provider has no socket to push to
    /\ changed' = IF impl # "provider" /\ files[t] # Absent THEN changed \cup {t}
                  ELSE changed
    /\ Did("write")
    /\ UNCHANGED <<impl, clientVars, inflight, socketVars, inbox, foreign, accepting,
                   clients, mergeVars>>

\* the data processor creates the directory with its first file
DirectoryCreated(t, c) ==
    /\ impl = "server"
    /\ writes < MaxWrites
    /\ files = NoDirectory
    /\ files' = [x \in Tickers |-> IF x = t THEN c ELSE Absent]
    /\ writes' = writes + 1
    /\ Did("write")
    /\ UNCHANGED <<impl, clientVars, inflight, socketVars, pushVars, accepting,
                   clients, mergeVars>>

----------------------------------------------------------------------------
(* PredictionsProvider *)

FetchFailedText == "Failed to fetch predictions"

\* the body of fetchFromApi up to the await: setError(null), request sent
fetchFromApi ==
    /\ Len(inflight) < MaxInflight
    /\ error' = NoError
    /\ inflight' = Append(inflight, Answered(DailyPredictions(files)))

\* the two effects run: fetchFromApi(), setInterval(fetchFromApi, 60000),
\* setInterval(tick, 5000)
ProviderMount ==
    /\ impl = "provider"
    /\ mounted = "no"
    /\ mounted' = "yes"
    /\ fetchFromApi
    /\ apiTimer' = TRUE
    /\ tickTimer' = TRUE
    /\ Did("mount")
    /\ UNCHANGED <<impl, predictions, loading, connected, cache, ticks,
                   serverVars, socketVars, pushVars, mergeVars>>

\* the 60 s interval fires
ProviderPollTimer ==
    /\ impl = "provider"
    /\ apiTimer
    /\ fetchFromApi
    /\ Did("fetch")
    /\ UNCHANGED <<impl, mounted, predictions, loading, connected, cache,
                   apiTimer, tickTimer, ticks, serverVars, socketVars, pushVars, mergeVars>>

\* a consumer calls refreshNow
ProviderRefreshNow ==
    /\ impl = "provider"
    /\ mounted = "yes"
    /\ fetchFromApi
    /\ Did("fetch")
    /\ UNCHANGED <<impl, mounted, predictions, loading, connected, cache,
                   apiTimer, tickTimer, ticks, serverVars, socketVars, pushVars, mergeVars>>

\* a consumer calls refreshNow while a request is still in flight: nothing
\* in fetchFromApi waits for it, one request more than the others may have
\* in flight leaves
ProviderRefreshDuringPoll ==
    /\ impl = "provider"
    /\ mounted = "yes"
    /\ Len(inflight) > 0
    /\ Len(inflight) < MaxInflight + 1
    /\ error' = NoError
    /\ inflight' = Append(inflight, Answered(DailyPredictions(files)))
    /\ Did("fetch")
    /\ UNCHANGED <<impl, mounted, predictions, loading, connected, cache,
                   apiTimer, tickTimer, ticks, serverVars, socketVars, pushVars, mergeVars>>

\* mutant of ProviderMerged: setPredictions(stableMerge(predictions, apiList))
\* with the collection of an earlier render in place of the updater's prev
ProviderMergedStale(prev, apiList) == stableMerge(last.before, apiList)

\* the updater of fetchFromApi: merge, persist, return
ProviderMerged(prev, apiList) == stableMerge(prev, apiList)

\* the request resolves: setPredictions(updater), setLoading(false)
ProviderFetchOk(i) ==
    /\ impl = "provider"
    /\ mounted = "yes"
    /\ i \in 1..Len(inflight)
    /\ LET merged == ProviderMerged(predictions, inflight[i].predictions)
       IN /\ predictions' = merged
          /\ cache' = setItem(cache, merged)
    /\ loading' = FALSE
    /\ inflight' = RemoveAt(inflight, i)
    /\ DidWith("fetchOk", inflight[i].predictions)
    /\ UNCHANGED <<impl, mounted, error, connected, apiTimer, tickTimer, ticks,
                   serverVars, socketVars, pushVars, mergeVars>>

\* mutant of ProviderFetchFail: the catch block also clears the collection
ProviderFetchFailClears(i) ==
    /\ impl = "provider"
    /\ mounted = "yes"
    /\ i \in 1..Len(inflight)
    /\ predictions' = <<>>
    /\ error' = FetchFailedText
    /\ loading' = FALSE
    /\ inflight' = RemoveAt(inflight, i)
    /\ Did("fetchFail")
    /\ UNCHANGED <<impl, mounted, connected, cache, apiTimer, tickTimer, ticks,
                   serverVars, socketVars, pushVars, mergeVars>>

\* the request rejects (timeout, network error, status 500): the catch block
\* sets the error and clears loading
ProviderFetchFail(i) ==
    /\ impl = "provider"
    /\ mounted = "yes"
    /\ i \in 1..Len(inflight)
    /\ error' = FetchFailedText
    /\ loading' = FALSE
    /\ inflight' = RemoveAt(inflight, i)
    /\ Did("fetchFail")
    /\ UNCHANGED <<impl, mounted, predictions, connected, cache, apiTimer, tickTimer,
                   ticks, serverVars, socketVars, pushVars, mergeVars>>

\* mutant of ProviderTick: persist(prev) in place of persist(next)
ProviderTickPersistsPrev ==
    /\ impl = "provider"
    /\ tickTimer
    /\ ticks < MaxTicks
    /\ IF Len(predictions) = 0
       THEN UNCHANGED <<predictions, cache>>
       ELSE \E js \in [1..Len(predictions) -> Jitters] :
              LET next == [i \in 1..Len(predictions) |-> applyTick(predictions[i], js[i])]
              IN /\ predictions' = next
                 /\ cache' = setItem(cache, predictions)
    /\ ticks' = ticks + 1
    /\ Did("tick")
    /\ UNCHANGED <<impl, mounted, loading, error, connected, inflight, apiTimer,
                   tickTimer, serverVars, socketVars, pushVars, mergeVars>>

\* the 5 s interval fires: every record is jittered and the result
\* persisted; an empty collection is returned as it is
ProviderTick ==
    /\ impl = "provider"
    /\ tickTimer
    /\ ticks < MaxTicks
    /\ IF Len(predictions) = 0
       THEN UNCHANGED <<predictions, cache>>
       ELSE \E js \in [1..Len(predictions) -> Jitters] :
              LET next == [i \in 1..Len(predictions) |-> applyTick(predictions[i], js[i])]
              IN /\ predictions' = next
                 /\ cache' = setItem(cache, next)
    /\ ticks' = ticks + 1
    /\ Did("tick")
    /\ UNCHANGED <<impl, mounted, loading, error, connected, inflight, apiTimer,
                   tickTimer, serverVars, socketVars, pushVars, mergeVars>>

\* the cleanups of both effects: clearInterval twice
ProviderUnmount ==
    /\ impl = "provider"
    /\ mounted = "yes"
    /\ mounted' = "gone"
    /\ apiTimer' = FALSE
    /\ tickTimer' = FALSE
    /\ Did("cleanup")
    /\ UNCHANGED <<impl, predictions, loading, error, connected, cache, inflight,
                   ticks, serverVars, socketVars, pushVars, mergeVars>>

----------------------------------------------------------------------------
(* hooks/usePrediction.js: usePredictions, the push socket *)

Live == {"CONNECTING", "OPEN"}

\* a slot for a new WebSocket object: one never used, or one that is CLOSED
\* (a closed socket fires no further event)
FreeSockets == {s \in 1..MaxSockets : sockets[s] \in {"FREE", "CLOSED"}}
NewSocket == CHOOSE s \in FreeSockets : \A k \in FreeSockets : s <= k

FreeTimers == (1..MaxTimers) \ timers
NewTimer == CHOOSE k \in FreeTimers : \A j \in FreeTimers : k <= j

\* connectWebSocket returns at once when wsRef.current is OPEN
AlreadyConnected(ss, ref) == ref # 0 /\ ss[ref] = "OPEN"

\* connectWebSocket, on the socket table ss with wsRef.current = ref:
\* the new table and the new wsRef.current
connectWebSocket(ss, ref) ==
    IF AlreadyConnected(ss, ref)
    THEN [sockets |-> ss, wsRef |-> ref]
    ELSE LET free == {s \in 1..MaxSockets : ss[s] \in {"FREE", "CLOSED"}}
             new == CHOOSE s \in free : \A k \in free : s <= k
         IN [sockets |-> [ss EXCEPT ![new] = "CONNECTING"], wsRef |-> new]

CanConnect(ss, ref) ==
    AlreadyConnected(ss, ref) \/ \E s \in 1..MaxSockets : ss[s] \in {"FREE", "CLOSED"}

\* fetchPredictions up to the await: the request is sent
fetchPredictions ==
    /\ Len(inflight) < MaxInflight
    /\ inflight' = Append(inflight, Answered(DailyPredictions(files)))

\* the setup effect: fetchPredictions(), connectWebSocket(), setInterval(poll, 30 s)
HookMount ==
    /\ impl = "hook"
    /\ mounted = "no"
    /\ mounted' = "yes"
    /\ fetchPredictions
    /\ CanConnect(sockets, wsRef)
    /\ LET c == connectWebSocket(sockets, wsRef)
       IN sockets' = c.sockets /\ wsRef' = c.wsRef
    /\ apiTimer' = TRUE
    /\ Did("mount")
    /\ UNCHANGED <<impl, predictions, loading, error, connected, cache, tickTimer,
                   ticks, serverVars, timers, reconnectTimeoutRef, pushVars, mergeVars>>

\* the 30 s interval fires
HookPollTimer ==
    /\ impl = "hook"
    /\ apiTimer
    /\ fetchPredictions
    /\ Did("fetch")
    /\ UNCHANGED <<impl, clientVars, serverVars, socketVars, pushVars, mergeVars>>

\* a consumer calls refresh
HookRefresh ==
    /\ impl = "hook"
    /\ mounted = "yes"
    /\ fetchPredictions
    /\ Did("fetch")
    /\ UNCHANGED <<impl, clientVars, serverVars, socketVars, pushVars, mergeVars>>

\* p && p.ticker && p.prediction
ValidPrediction(p) ==
    /\ p # Undefined
    /\ Truthy(p.ticker)
    /\ p.prediction # Undefined

\* {...p, company_name: p.company_name || p.ticker}
WithCompanyName(p) == [p EXCEPT !.company_name = OrStr(p.company_name, p.ticker)]

\* validPredictions of fetchPredictions
validPredictions(predictionsData) ==
    LET kept == SelectSeq(predictionsData, ValidPrediction)
    IN [i \in 1..Len(kept) |-> WithCompanyName(kept[i])]

\* mutant of HookFetched: the snapshot is added to what is held
HookFetchedAppended(prev, predictionsData) == prev \o validPredictions(predictionsData)

\* setPredictions([...validPredictions]): the collection becomes the
\* snapshot's valid records, whatever it held
HookFetched(prev, predictionsData) == validPredictions(predictionsData)

\* the request resolves
HookFetchOk(i) ==
    /\ impl = "hook"
    /\ mounted = "yes"
    /\ i \in 1..Len(inflight)
    /\ predictions' = HookFetched(predictions, inflight[i].predictions)
    /\ error' = NoError
    /\ loading' = FALSE
    /\ inflight' = RemoveAt(inflight, i)
    /\ DidWith("fetchOk", inflight[i].predictions)
    /\ UNCHANGED <<impl, mounted, connected, cache, apiTimer, tickTimer, ticks,
                   serverVars, socketVars, pushVars, mergeVars>>

\* err.message of a rejected request
RequestFailedText == "Network Error"

\* the request rejects: the catch block
HookFetchFail(i) ==
    /\ impl = "hook"
    /\ mounted = "yes"
    /\ i \in 1..Len(inflight)
    /\ error' = RequestFailedText
    /\ loading' = FALSE
    /\ inflight' = RemoveAt(inflight, i)
    /\ Did("fetchFail")
    /\ UNCHANGED <<impl, mounted, predictions, connected, cache, apiTimer, tickTimer,
                   ticks, serverVars, socketVars, pushVars, mergeVars>>

\* ws.onopen: setConnected(true), setError(null); a state setter of a
\* component that is gone does nothing
SocketOpen(s) ==
    /\ impl = "hook"
    /\ sockets[s] = "CONNECTING"
    /\ sockets' = [sockets EXCEPT ![s] = "OPEN"]
    /\ connected' = IF mounted = "yes" THEN TRUE ELSE connected
    /\ error' = IF mounted = "yes" THEN NoError ELSE error
    \* the server's 'connection' handler has run: clients.add(ws)
    /\ clients' = clients \cup {s}
    /\ Did("onopen")
    /\ UNCHANGED <<impl, mounted, predictions, loading, cache, inflight, apiTimer,
                   tickTimer, ticks, files, writes, accepting, wsRef, timers,
                   reconnectTimeoutRef, pushVars, mergeVars>>

\* mutant of OnClose: the handler forgets to schedule the reconnect
OnCloseNoReconnect(s) ==
    /\ sockets' = [sockets EXCEPT ![s] = "CLOSED"]
    /\ connected' = IF mounted = "yes" THEN FALSE ELSE connected
    /\ UNCHANGED <<timers, reconnectTimeoutRef>>
    /\ inbox' = SelectSeq(inbox, LAMBDA m : m.to # s)
    /\ clients' = clients \ {s}

\* ws.onclose: setConnected(false), reconnectTimeoutRef.current =
\* setTimeout(connectWebSocket, 5000), whether or not the hook is still
\* mounted; what was on its way to the socket is lost
OnClose(s) ==
    /\ sockets' = [sockets EXCEPT ![s] = "CLOSED"]
    /\ connected' = IF mounted = "yes" THEN FALSE ELSE connected
    /\ FreeTimers # {}
    /\ timers' = timers \cup {NewTimer}
    /\ reconnectTimeoutRef' = NewTimer
    /\ inbox' = SelectSeq(inbox, LAMBDA m : m.to # s)
    \* the server's 'close' handler: clients.delete(ws)
    /\ clients' = clients \ {s}

\* the connection fails (refused, dropped): ws.onerror, then ws.onclose
SocketError(s) ==
    /\ impl = "hook"
    /\ ~accepting
    /\ sockets[s] \in {"CONNECTING", "OPEN"}
    /\ OnClose(s)
    /\ Did("onclose")
    /\ UNCHANGED <<impl, mounted, predictions, loading, error, cache, inflight,
                   apiTimer, tickTimer, ticks, files, writes, accepting, wsRef,
                   changed, foreign, mergeVars>>

\* the connection closes (the server closes it, or close() completes): ws.onclose
SocketClose(s) ==
    /\ impl = "hook"
    /\ sockets[s] = "CLOSING" \/ (sockets[s] = "OPEN" /\ ~accepting)
    /\ OnClose(s)
    /\ Did("onclose")
    /\ UNCHANGED <<impl, mounted, predictions, loading, error, cache, inflight,
                   apiTimer, tickTimer, ticks, files, writes, accepting, wsRef,
                   changed, foreign, mergeVars>>

\* mutant of ReconnectTimer: a setInterval in place of the setTimeout, the
\* timer stays pending after it fired
ReconnectTimerRepeats(k) ==
    /\ impl = "hook"
    /\ k \in timers
    /\ timers' = timers
    /\ CanConnect(sockets, wsRef)
    /\ LET c == connectWebSocket(sockets, wsRef)
       IN sockets' = c.sockets /\ wsRef' = c.wsRef
    /\ Did("reconnect")
    /\ UNCHANGED <<impl, clientVars, inflight, serverVars, reconnectTimeoutRef,
                   pushVars, mergeVars>>

\* the 5 s reconnect timer fires: connectWebSocket()
ReconnectTimer(k) ==
    /\ impl = "hook"
    /\ k \in timers
    /\ timers' = timers \ {k}
    /\ CanConnect(sockets, wsRef)
    /\ LET c == connectWebSocket(sockets, wsRef)
       IN sockets' = c.sockets /\ wsRef' = c.wsRef
    /\ Did("reconnect")
    /\ UNCHANGED <<impl, clientVars, inflight, serverVars, reconnectTimeoutRef,
                   pushVars, mergeVars>>

\* ws.close(): a live socket starts closing, any other is left alone
closeSocket(ss, s) ==
    IF s # 0 /\ ss[s] \in Live THEN [ss EXCEPT ![s] = "CLOSING"] ELSE ss

\* the effect cleanup: clearInterval(pollInterval), clearTimeout(reconnect
\* handle), wsRef.current.close()
HookCleanup ==
    /\ impl = "hook"
    /\ mounted = "yes"
    /\ mounted' = "gone"
    /\ apiTimer' = FALSE
    /\ timers' = timers \ {reconnectTimeoutRef}
    /\ sockets' = closeSocket(sockets, wsRef)
    /\ Did("cleanup")
    /\ UNCHANGED <<impl, predictions, loading, error, connected, cache, inflight,
                   tickTimer, ticks, serverVars, wsRef, reconnectTimeoutRef,
                   pushVars, mergeVars>>

----------------------------------------------------------------------------
(* Push messages *)

Message(ty, t, cn, pred, hasList, list) ==
    [valid |-> TRUE, type |-> ty, ticker |-> t, company_name |-> cn,
     prediction |-> pred, hasList |-> hasList, predictions |-> list]

\* the watcher's event for file name ticker t holding pred
UpdatedMessage(t, pred) ==
    Message("prediction_updated", t, CompanyName(t), pred, FALSE, <<>>)

\* the periodic full snapshot
RefreshMessage(list) ==
    Message("predictions_refresh", Undef, Undef, Undefined, TRUE, list)

\* text that JSON.parse rejects
MalformedMessage ==
    [valid |-> FALSE, type |-> Undef, ticker |-> Undef, company_name |-> Undef,
     prediction |-> Undefined, hasList |-> FALSE, predictions |-> <<>>]

\* messages this server never sends: malformed text, types without a branch
\* in the handler, and known types lacking a field
ForeignMessages ==
    { MalformedMessage,
      Message("heartbeat", Undef, Undef, Undefined, FALSE, <<>>),
      Message("prediction_updated", "AAPL", "Apple", Undefined, FALSE, <<>>),
      Message("predictions_refresh", Undef, Undef, Undefined, FALSE, <<>>) }

\* messages that are malformed, of an unknown type, or lack a required field
Unusable(m) ==
    \/ ~m.valid
    \/ m.type \notin {"prediction_updated", "predictions_refresh"}
    \/ m.type = "prediction_updated" /\ (m.ticker = Undef \/ m.prediction = Undefined)
    \/ m.type = "predictions_refresh" /\ ~m.hasList

\* { ...message.prediction, company_name: message.company_name }
SpreadWithName(pred, cn) ==
    IF pred = Undefined THEN RawItem(Undef, cn, UndefNum, UndefNum, Undefined)
    ELSE [pred EXCEPT !.company_name = cn]

\* the updater of the prediction_updated branch reads p.ticker of every
\* element: it throws on an element that is undefined
UpdaterThrows(prev, m) ==
    /\ m.valid
    /\ m.type = "prediction_updated"
    /\ \E i \in 1..Len(prev) : prev[i] = Undefined

\* the updater of the prediction_updated branch
updatedPredictions(prev, m) ==
    LET updated == [i \in 1..Len(prev) |->
                      IF prev[i].ticker = m.ticker
                      THEN SpreadWithName(m.prediction, m.company_name)
                      ELSE prev[i]]
        found == \E i \in 1..Len(updated) : updated[i].ticker = m.ticker
    IN IF found THEN updated ELSE Append(updated, m.prediction)

\* ws.onmessage: what the collection becomes (the try block; whatever throws
\* inside it is caught and logged)
onmessage(prev, m) ==
    IF ~m.valid THEN prev
    ELSE IF m.type = "prediction_updated" THEN updatedPredictions(prev, m)
    ELSE IF m.type = "predictions_refresh"
         THEN (IF m.hasList THEN m.predictions ELSE prev)
    ELSE prev

OpenSockets == {s \in 1..MaxSockets : sockets[s] = "OPEN"}

RECURSIVE Addressed(_, _)
\* one copy of m for every socket of S, lowest first
Addressed(S, m) ==
    IF S = {} THEN <<>>
    ELSE LET s == CHOOSE x \in S : \A y \in S : x <= y
         IN <<[to |-> s, msg |-> m]>> \o Addressed(S \ {s}, m)

\* the registered peers with client.readyState === WebSocket.OPEN
SendTargets == {c \in clients : sockets[c] = "OPEN"}

\* what a broadcast leaves in the history variable: the message, the registry
\* and the ready states it met, and the peers whose send threw
Broadcast(op, m, throws) ==
    last' = [op |-> op, before |-> predictions,
             input |-> [sent |-> TRUE, msg |-> m, clients |-> clients,
                        ready |-> sockets, throws |-> throws]]

\* a firing of a server timer or watcher that broadcast nothing
NoBroadcast(op) ==
    last' = [op |-> op, before |-> predictions, input |-> [sent |-> FALSE]]

\* mutant of broadcastToClients: no try/catch around send, the first throw
\* ends the loop
broadcastStopsAtThrow(m, throws) ==
    /\ throws \subseteq SendTargets
    /\ clients' = clients
    /\ LET reached == {c \in SendTargets : \A x \in throws : c < x}
       IN IF impl = "server"
          THEN inbox' = Addressed(reached, m)
          ELSE /\ Len(inbox) + Cardinality(SendTargets) <= MaxInbox
               /\ inbox' = inbox \o Addressed(reached, m)

\* broadcastToClients: send to every registered peer that is OPEN; a peer
\* whose send throws is deleted from the registry and the loop goes on.
\* The hook's model queues the copies for the client sockets; the server's
\* own model keeps the copies of the last broadcast only.
broadcastToClients(m, throws) ==
    /\ throws \subseteq SendTargets
    /\ clients' = clients \ throws
    /\ IF impl = "server"
       THEN inbox' = Addressed(SendTargets \ throws, m)
       ELSE /\ Len(inbox) + Cardinality(SendTargets) <= MaxInbox
            /\ inbox' = inbox \o Addressed(SendTargets \ throws, m)

\* the sets of peers whose send may throw: any in the server's own model,
\* none on the hook's connection
MayThrow == IF impl = "server" THEN SUBSET SendTargets ELSE {{}}

\* mutant of WatcherChange: no try/catch in the handler, the rejection of
\* readFile or the throw of JSON.parse ends the process and every connection
WatcherChangeNoCatch(t) ==
    /\ impl \in {"hook", "server"}
    /\ t \in changed
    /\ IF files[t] = Corrupt \/ files[t] = Absent
       THEN /\ changed' = {}
            /\ clients' = {}
            /\ UNCHANGED inbox
            /\ NoBroadcast("change")
       ELSE /\ changed' = changed \ {t}
            /\ \E throws \in MayThrow :
                 /\ broadcastToClients(UpdatedMessage(t, files[t]), throws)
                 /\ Broadcast("change", UpdatedMessage(t, files[t]), throws)
    /\ UNCHANGED <<impl, clientVars, inflight, files, writes, accepting, socketVars,
                   foreign, mergeVars>>

\* chokidar 'change' (after awaitWriteFinish): read, parse, broadcast; a read
\* or parse failure is caught and nothing is sent
WatcherChange(t) ==
    /\ impl \in {"hook", "server"}
    /\ t \in changed
    /\ changed' = changed \ {t}
    /\ IF files[t] = Corrupt \/ files[t] = Absent
       THEN /\ UNCHANGED <<inbox, clients>>
            /\ NoBroadcast("change")
       ELSE \E throws \in MayThrow :
              /\ broadcastToClients(UpdatedMessage(t, files[t]), throws)
              /\ Broadcast("change", UpdatedMessage(t, files[t]), throws)
    /\ UNCHANGED <<impl, clientVars, inflight, files, writes, accepting, socketVars,
                   foreign, mergeVars>>

\* the prediction files a firing of the 2 minute interval collects; readdir
\* of a missing directory throws and the firing ends in the outer catch
RefreshList == IF files = NoDirectory THEN <<>> ELSE DailyPredictions(files)

\* the 2 minute interval: broadcast every valid prediction when there is one
\* and a client is registered.  On the hook's connection a firing that sends
\* nothing is a step that changes nothing.
PeriodicRefresh ==
    /\ impl \in {"hook", "server"}
    /\ IF Len(RefreshList) > 0 /\ clients # {}
       THEN \E throws \in MayThrow :
              /\ broadcastToClients(RefreshMessage(RefreshList), throws)
              /\ Broadcast("refresh", RefreshMessage(RefreshList), throws)
       ELSE /\ impl = "server"
            /\ UNCHANGED <<inbox, clients>>
            /\ NoBroadcast("refresh")
    /\ UNCHANGED <<impl, clientVars, inflight, files, writes, accepting, socketVars,
                   changed, foreign, mergeVars>>

\* a peer other than this server sends a message
ForeignMessage(s, m) ==
    /\ impl = "hook"
    /\ foreign < MaxForeign
    /\ sockets[s] = "OPEN"
    /\ Len(inbox) < MaxInbox
    /\ inbox' = Append(inbox, [to |-> s, msg |-> m])
    /\ foreign' = foreign + 1
    /\ Did("env")
    /\ UNCHANGED <<impl, clientVars, inflight, serverVars, socketVars, changed,
                   mergeVars>>

\* the message event of the oldest message in flight: ws.onmessage.  An
\* updater that throws does so while React renders: the error is not caught,
\* React unmounts the tree and the effect cleanup runs.
Deliver ==
    /\ impl = "hook"
    /\ Len(inbox) > 0
    /\ inbox' = Tail(inbox)
    /\ LET m == inbox[1].msg
       IN IF mounted # "yes"
          THEN UNCHANGED <<mounted, predictions, apiTimer, timers, sockets>>
          ELSE IF UpdaterThrows(predictions, m)
          THEN /\ mounted' = "gone"
               /\ apiTimer' = FALSE
               /\ timers' = timers \ {reconnectTimeoutRef}
               /\ sockets' = closeSocket(sockets, wsRef)
               /\ UNCHANGED predictions
          ELSE /\ predictions' = onmessage(predictions, m)
               /\ UNCHANGED <<mounted, apiTimer, timers, sockets>>
    /\ DidWith("onmessage", inbox[1].msg)
    /\ UNCHANGED <<impl, loading, error, connected, cache, inflight, tickTimer,
                   ticks, serverVars, wsRef, reconnectTimeoutRef, changed, foreign,
                   mergeVars>>

----------------------------------------------------------------------------
(* api_service/server.js alone: peers, requests, the directory *)

\* everything the server's own handlers leave alone
apiFrame == <<impl, clientVars, inflight, accepting, wsRef, timers,
              reconnectTimeoutRef, foreign, mergeVars>>

\* wss.on('connection'): the peer is registered
WssConnection(p) ==
    /\ impl = "server"
    /\ sockets[p] = "FREE"
    /\ sockets' = [sockets EXCEPT ![p] = "OPEN"]
    /\ clients' = clients \cup {p}
    /\ Did("connection")
    /\ UNCHANGED <<apiFrame, files, writes, changed, inbox>>

\* the closing handshake starts: readyState leaves OPEN, 'close' comes later
WsClosing(p) ==
    /\ impl = "server"
    /\ sockets[p] = "OPEN"
    /\ sockets' = [sockets EXCEPT ![p] = "CLOSING"]
    /\ Did("closing")
    /\ UNCHANGED <<apiFrame, files, writes, changed, inbox, clients>>

\* ws.on('close'): the peer is deleted from the registry
WsClose(p) ==
    /\ impl = "server"
    /\ sockets[p] \in {"OPEN", "CLOSING"}
    /\ sockets' = [sockets EXCEPT ![p] = "CLOSED"]
    /\ clients' = clients \ {p}
    /\ DidWith("close", p)
    /\ UNCHANGED <<apiFrame, files, writes, changed, inbox>>

\* mutant of WsError: the handler logs the error and leaves the registry alone
WsErrorLogsOnly(p) ==
    /\ impl = "server"
    /\ sockets[p] \in {"OPEN", "CLOSING"}
    /\ p \in clients
    /\ clients' = clients
    /\ DidWith("error", p)
    /\ UNCHANGED <<apiFrame, files, writes, changed, inbox, sockets>>

\* ws.on('error'): the peer is deleted from the registry, its readyState is
\* whatever the failure left
WsError(p) ==
    /\ impl = "server"
    /\ sockets[p] \in {"OPEN", "CLOSING"}
    /\ p \in clients
    /\ clients' = clients \ {p}
    /\ DidWith("error", p)
    /\ UNCHANGED <<apiFrame, files, writes, changed, inbox, sockets>>

\* app.get('/api/predictions/daily'): the response is kept in last.input
GetPredictionsDaily ==
    /\ impl = "server"
    /\ DidWith("get", GetDaily(files))
    /\ UNCHANGED <<apiFrame, files, writes, changed, inbox, sockets, clients>>

\* app.get('/api/health'): the response is kept in last.input
GetHealth ==
    /\ impl = "server"
    /\ DidWith("health", [status |-> "healthy", websocket_clients |-> Cardinality(clients)])
    /\ UNCHANGED <<apiFrame, files, writes, changed, inbox, sockets, clients>>

----------------------------------------------------------------------------
(* stableMerge as a function: applied once and again to drawn inputs *)

\* items a snapshot may list
BatchItems ==
    { RawItem("AAPL", "Apple", 10, 10, PredA),
      RawItem("AAPL", "Apple", 40, 30, PredB),
      RawItem("MSFT", "Microsoft", 10, 10, PredA),
      RawItem("MSFT", "Microsoft", 40, 30, PredB),
      RawItem("MSFT", Undef, 10, 10, PredA) }         \* no company_name

SeqsUpTo(S, n) == UNION {[1..k -> S] : k \in 0..n}

\* records a collection may hold: normalised, possibly ticked since
HeldRecords ==
    {normalizeOne(x) : x \in BatchItems}
      \cup {applyTick(normalizeOne(x), CHOOSE j \in Jitters : j.ds > 0) : x \in BatchItems}

MergeApply ==
    /\ impl = "merge"
    /\ phase < 2
    /\ predictions' = stableMerge(predictions, incoming)
    /\ once' = IF phase = 0 THEN stableMerge(predictions, incoming) ELSE once
    /\ phase' = phase + 1
    /\ DidWith("stableMerge", incoming)
    /\ UNCHANGED <<impl, mounted, loading, error, connected, cache, inflight,
                   apiTimer, tickTimer, ticks, serverVars, socketVars, pushVars,
                   incoming>>

----------------------------------------------------------------------------
(* Initial states *)

\* directories the server may start with
InitialFiles ==
    {[t \in Tickers |-> Absent],
     [t \in Tickers |-> RawItem(t, Undef, 10, 10, PredA)]}

\* cache slots a previous session may have left
InitialCaches ==
    {NoCache,
     persist(<<normalizeOne(RawItem("MSFT", "Microsoft", 10, 10, PredA))>>)}

InitIdle ==
    /\ mounted = "no"
    /\ connected = FALSE
    /\ inflight = <<>>
    /\ apiTimer = FALSE
    /\ tickTimer = FALSE
    /\ ticks = 0
    /\ writes = 0
    /\ sockets = [s \in 1..MaxSockets |-> "FREE"]
    /\ wsRef = 0
    /\ timers = {}
    /\ reconnectTimeoutRef = 0
    /\ changed = {}
    /\ inbox = <<>>
    /\ foreign = 0
    /\ accepting = FALSE
    /\ clients = {}
    /\ last = [op |-> "init", before |-> <<>>, input |-> NoInput]

InitMergeIdle ==
    /\ incoming = <<>>
    /\ once = <<>>
    /\ phase = 0

InitProvider ==
    /\ impl = "provider"
    /\ InitIdle
    /\ InitMergeIdle
    /\ cache \in InitialCaches
    /\ predictions = InitialPredictions(cache)
    /\ loading = (Len(predictions) = 0)
    /\ error = NoError
    /\ files \in InitialFiles

InitMerge ==
    /\ impl = "merge"
    /\ InitIdle
    /\ cache = NoCache
    /\ loading = FALSE
    /\ error = NoError
    /\ files = [t \in Tickers |-> Absent]
    /\ predictions \in SeqsUpTo(HeldRecords, MaxBatch)
    /\ incoming \in SeqsUpTo(BatchItems, MaxBatch)
    /\ once = <<>>
    /\ phase = 0

\* records at the edges of the ranges, as a session that ticked before left
\* them in the cache
EdgeRecord(score, sent, arts) ==
    [normalizeOne(RawItem("AAPL", "Apple", arts, sent, PredA))
       EXCEPT !.prediction.combined_score = score]

EdgeRecords ==
    { EdgeRecord(100, 0 - 100, 200),
      EdgeRecord(0 - 100, 100, 0),
      EdgeRecord(95, 0 - 95, 198),
      EdgeRecord(0 - 95, 95, 2),
      EdgeRecord(0, 0, 100) }

\* slots that hold no object with a predictions array
OddSlots ==
    {NoCache, EmptyRaw, CorruptCache, ParsedFalsy, ParsedScalar, ParsedArray,
     NoPredictions, PredictionsNotArray}

\* the page is opened over any slot: nothing is constructed yet
InitStart ==
    /\ impl = "start"
    /\ InitIdle
    /\ InitMergeIdle
    /\ cache \in OddSlots \cup {persist(c) : c \in SeqsUpTo(EdgeRecords, MaxBatch)}
    /\ predictions = <<>>
    /\ loading = TRUE
    /\ error = NoError
    /\ files = [t \in Tickers |-> Absent]

\* PredictionsProvider is rendered for the first time: the useState
\* initialisers of predictions and loading run
ProviderConstruct ==
    /\ impl = "start"
    /\ impl' = "provider"
    /\ predictions' = InitialPredictions(cache)
    /\ loading' = (Len(InitialPredictions(cache)) = 0)
    /\ DidWith("construct", cache)
    /\ UNCHANGED <<mounted, error, connected, cache, apiTimer, tickTimer, ticks,
                   inflight, serverVars, socketVars, pushVars, mergeVars>>

NextProvider ==
    \/ ProviderMount
    \/ ProviderPollTimer
    \/ ProviderRefreshNow
    \/ \E i \in 1..MaxInflight : ProviderFetchOk(i)
    \/ \E i \in 1..MaxInflight : ProviderFetchFail(i)
    \/ ProviderTick
    \/ ProviderUnmount

\* from now on the server accepts every connection and keeps it open
ServerSettles ==
    /\ impl = "hook"
    /\ ~accepting
    /\ accepting' = TRUE
    /\ Did("env")
    /\ UNCHANGED <<impl, clientVars, inflight, files, writes, clients, socketVars,
                   pushVars, mergeVars>>

NextServer ==
    \E t \in Tickers : \E c \in FileContents(t) \cup {Corrupt} : FileWrite(t, c)

InitHook ==
    /\ impl = "hook"
    /\ InitIdle
    /\ InitMergeIdle
    /\ cache = NoCache
    /\ predictions = <<>>
    /\ loading = TRUE
    /\ error = NoError
    /\ files \in InitialFiles

NextHook ==
    \/ HookMount
    \/ HookPollTimer
    \/ HookRefresh
    \/ \E i \in 1..MaxInflight : HookFetchOk(i)
    \/ \E i \in 1..MaxInflight : HookFetchFail(i)
    \/ \E s \in 1..MaxSockets : SocketOpen(s)
    \/ \E s \in 1..MaxSockets : SocketError(s)
    \/ \E s \in 1..MaxSockets : SocketClose(s)
    \/ \E k \in 1..MaxTimers : ReconnectTimer(k)
    \/ HookCleanup
    \/ \E t \in Tickers : WatcherChange(t)
    \/ PeriodicRefresh
    \/ \E s \in 1..MaxSockets : \E m \in ForeignMessages : ForeignMessage(s, m)
    \/ Deliver
    \/ ServerSettles

\* the API service starts with no peer, over a directory that may be missing
InitApiService ==
    /\ impl = "server"
    /\ InitIdle
    /\ InitMergeIdle
    /\ cache = NoCache
    /\ predictions = <<>>
    /\ loading = FALSE
    /\ error = NoError
    /\ files \in InitialFiles \cup {NoDirectory}

NextApiService ==
    \/ \E p \in 1..MaxSockets : WssConnection(p)
    \/ \E p \in 1..MaxSockets : WsClosing(p)
    \/ \E p \in 1..MaxSockets : WsClose(p)
    \/ \E p \in 1..MaxSockets : WsError(p)
    \/ \E t \in Tickers : WatcherChange(t)
    \/ PeriodicRefresh
    \/ GetPredictionsDaily
    \/ GetHealth
    \/ \E t \in Tickers : \E c \in FileContents(t) \cup {Corrupt} : DirectoryCreated(t, c)

Init == InitProvider \/ InitHook \/ InitMerge \/ InitApiService \/ InitStart

Next ==
    \/ NextProvider \/ NextHook \/ NextServer \/ MergeApply \/ NextApiService
    \/ ProviderConstruct

Spec == Init /\ [][Next]_vars

\* one implementation at a time
SpecProvider == InitProvider /\ [][NextProvider \/ NextServer]_vars
SpecHook == InitHook /\ [][NextHook \/ NextServer]_vars
SpecMerge == InitMerge /\ [][MergeApply]_vars
SpecApiService == InitApiService /\ [][NextApiService \/ NextServer]_vars

\* the API service over a directory nobody writes: peers come and go and the
\* interval fires
NextBroadcast ==
    \/ \E p \in 1..MaxSockets : WssConnection(p)
    \/ \E p \in 1..MaxSockets : WsClosing(p)
    \/ \E p \in 1..MaxSockets : WsClose(p)
    \/ \E p \in 1..MaxSockets : WsError(p)
    \/ PeriodicRefresh
    \/ GetHealth

SpecBroadcast == InitApiService /\ [][NextBroadcast]_vars

\* the API service over a directory one of whose files may not parse
InitWatcher ==
    /\ impl = "server"
    /\ InitIdle
    /\ InitMergeIdle
    /\ cache = NoCache
    /\ predictions = <<>>
    /\ loading = FALSE
    /\ error = NoError
    /\ files \in {[t \in Tickers |-> RawItem(t, Undef, 10, 10, PredA)],
                  [t \in Tickers |-> IF t = "AAPL" THEN Corrupt
                                     ELSE RawItem(t, Undef, 10, 10, PredA)]}

\* the data processor rewrites a file with the text it already holds:
\* chokidar raises 'change' all the same
FileTouched(t) ==
    /\ impl = "server"
    /\ t \notin changed
    /\ files[t] # Absent
    /\ changed' = changed \cup {t}
    /\ Did("write")
    /\ UNCHANGED <<impl, clientVars, inflight, serverVars, socketVars, inbox, foreign,
                   mergeVars>>

NextWatcher ==
    \/ \E p \in 1..MaxSockets : WssConnection(p)
    \/ \E p \in 1..MaxSockets : WsClose(p)
    \/ \E t \in Tickers : WatcherChange(t)
    \/ \E t \in Tickers : FileTouched(t)

SpecWatcher == InitWatcher /\ [][NextWatcher \/ NextServer]_vars

\* the hook while the push channel is down: no connection attempt succeeds,
\* so no message reaches it, and the poll is its only source
NextHookPoll ==
    \/ HookMount
    \/ HookPollTimer
    \/ HookRefresh
    \/ \E i \in 1..MaxInflight : HookFetchOk(i)
    \/ \E i \in 1..MaxInflight : HookFetchFail(i)
    \/ \E s \in 1..MaxSockets : SocketError(s)
    \/ \E s \in 1..MaxSockets : SocketClose(s)
    \/ \E k \in 1..MaxTimers : ReconnectTimer(k)
    \/ HookCleanup
    \/ \E t \in Tickers : WatcherChange(t)

SpecHookPoll == InitHook /\ [][NextHookPoll \/ NextServer]_vars

\* the two polling clients
SpecPolling ==
    (InitProvider \/ InitHook) /\ [][NextProvider \/ NextHookPoll \/ NextServer]_vars

\* the hook with the scheduling the platform guarantees: an effect that is
\* due runs, a timer that is due fires, a connection attempt the server
\* accepts completes, a socket that is closing closes
FairHook ==
    /\ SpecHook
    /\ WF_vars(HookMount)
    /\ \A k \in 1..MaxTimers : WF_vars(ReconnectTimer(k))
    /\ \A s \in 1..MaxSockets : WF_vars(SocketOpen(s))
    /\ \A s \in 1..MaxSockets : WF_vars(SocketClose(s) /\ sockets[s] = "CLOSING")

\* the hook over a directory nobody writes to: the socket's life cycle, the
\* poll, the periodic refresh and whatever else may arrive on the socket
NextHookLink ==
    \/ HookMount
    \/ HookPollTimer
    \/ HookRefresh
    \/ \E i \in 1..MaxInflight : HookFetchOk(i)
    \/ \E i \in 1..MaxInflight : HookFetchFail(i)
    \/ \E s \in 1..MaxSockets : SocketOpen(s)
    \/ \E s \in 1..MaxSockets : SocketError(s)
    \/ \E s \in 1..MaxSockets : SocketClose(s)
    \/ \E k \in 1..MaxTimers : ReconnectTimer(k)
    \/ HookCleanup
    \/ PeriodicRefresh
    \/ \E s \in 1..MaxSockets : \E m \in ForeignMessages : ForeignMessage(s, m)
    \/ Deliver
    \/ ServerSettles

FairHookLink ==
    /\ InitHook /\ [][NextHookLink]_vars
    /\ WF_vars(HookMount)
    /\ \A k \in 1..MaxTimers : WF_vars(ReconnectTimer(k))
    /\ \A s \in 1..MaxSockets : WF_vars(SocketOpen(s))
    /\ \A s \in 1..MaxSockets : WF_vars(SocketClose(s) /\ sockets[s] = "CLOSING")

\* the provider started from a cached collection over an empty directory:
\* the polls bring nothing, the ticks are its only source of change
InitTicks ==
    /\ impl = "provider"
    /\ InitIdle
    /\ InitMergeIdle
    /\ \E c \in SeqsUpTo(EdgeRecords, MaxBatch) : cache = persist(c)
    /\ predictions = InitialPredictions(cache)
    /\ loading = (Len(predictions) = 0)
    /\ error = NoError
    /\ files = [t \in Tickers |-> Absent]

SpecTicks == InitTicks /\ [][NextProvider]_vars

\* the provider from its construction on, with the server out of reach
SpecStart == InitStart /\ [][ProviderConstruct \/ NextProvider]_vars

\* records whose score a tick moves onto or next to a threshold of
\* signalFromScore: 0.44 + 0.11 = 0.55, 0.66 - 0.12 = 0.54, 0.01 + 0.11 = 0.12,
\* 0 - 0.12 = -0.12, -0.43 - 0.12 = -0.55, -0.23 + 0.11 = -0.12
ThresholdRecords ==
    { EdgeRecord(44, 0, 14), EdgeRecord(66, 0, 27), EdgeRecord(1, 0, 9),
      EdgeRecord(0, 0, 33), EdgeRecord(0 - 43, 0, 24), EdgeRecord(0 - 23, 0, 60) }

\* the provider started from a cached collection of such records over an
\* empty directory
InitThresholds ==
    /\ impl = "provider"
    /\ InitIdle
    /\ InitMergeIdle
    /\ \E c \in SeqsUpTo(ThresholdRecords, MaxBatch) : cache = persist(c)
    /\ predictions = InitialPredictions(cache)
    /\ loading = (Len(predictions) = 0)
    /\ error = NoError
    /\ files = [t \in Tickers |-> Absent]

SpecThresholds == InitThresholds /\ [][NextProvider]_vars

\* the provider over a directory nobody writes, started with an empty slot,
\* with a slot a previous session wrote, or with such a slot in a full storage
InitPersist ==
    /\ impl = "provider"
    /\ InitIdle
    /\ InitMergeIdle
    /\ cache \in InitialCaches
                \cup {QuotaFull(<<normalizeOne(RawItem("MSFT", "Microsoft", 10, 10, PredA))>>)}
    /\ predictions = InitialPredictions(cache)
    /\ loading = (Len(predictions) = 0)
    /\ error = NoError
    /\ files = [t \in Tickers |-> RawItem(t, Undef, 40, 30, PredB)]

SpecPersist == InitPersist /\ [][NextProvider]_vars

\* the provider with overlapping polls: the timer's request and refreshNow's
\* in flight together, ticks and file writes in between
InitOverlap ==
    /\ impl = "provider"
    /\ InitIdle
    /\ InitMergeIdle
    /\ cache = NoCache
    /\ predictions = InitialPredictions(cache)
    /\ loading = (Len(predictions) = 0)
    /\ error = NoError
    /\ files = [t \in Tickers |-> IF t = "AAPL" THEN RawItem(t, Undef, 10, 10, PredA)
                                   ELSE Absent]

NextOverlap ==
    \/ ProviderMount
    \/ ProviderPollTimer
    \/ ProviderRefreshDuringPoll
    \/ \E i \in 1..(MaxInflight + 1) : ProviderFetchOk(i)
    \/ \E i \in 1..(MaxInflight + 1) : ProviderFetchFail(i)
    \/ ProviderTick
    \/ \E c \in {RawItem("MSFT", Undef, 40, 30, PredB)} : FileWrite("MSFT", c)

SpecOverlap == InitOverlap /\ [][NextOverlap]_vars

\* a prediction object that supplies a score and nothing else
ScoreOnly(score) ==
    [final_signal |-> Undef, direction |-> Undef, combined_score |-> score,
     confidence_level |-> Undef, reasoning |-> Undef]

\* poll payloads whose records leave signal, direction and confidence out
ScoreOnlyItems ==
    { RawItem("MSFT", Undef, 10, 10, ScoreOnly(50)),
      RawItem("TSLA", Undef, 10, 10, ScoreOnly(0 - 70)),
      RawItem("AAPL", Undef, 10, 10, ScoreOnly(30)),
      RawItem("TSLA", "Tesla", 10, 10, PredA) }

\* stableMerge applied to such payloads over a held collection
InitDerive ==
    /\ impl = "merge"
    /\ InitIdle
    /\ cache = NoCache
    /\ loading = FALSE
    /\ error = NoError
    /\ files = [t \in Tickers |-> Absent]
    /\ predictions \in SeqsUpTo({normalizeOne(x) : x \in BatchItems}, 1)
    /\ incoming \in SeqsUpTo(ScoreOnlyItems, MaxBatch)
    /\ once = <<>>
    /\ phase = 0

SpecDerive == InitDerive /\ [][MergeApply]_vars

----------------------------------------------------------------------------
(* Properties *)

TickerOf(p) == IF p = Undefined THEN Undef ELSE p.ticker

\* the tickers a list of records names (a record without one names none)
TickersOf(list) == {TickerOf(list[i]) : i \in 1..Len(list)} \ {Undef, ""}

\* the freshness-sensitive fields of a normalised record
LiveFields(p) ==
    <<p.prediction.combined_score, p.average_sentiment, p.total_articles,
      p.prediction.final_signal, p.prediction.direction,
      p.prediction.confidence_level, p.prediction.reasoning>>

\* the last handler applied a full snapshot to the collection
AppliedSnapshot ==
    \/ last.op = "fetchOk"
    \/ /\ last.op = "onmessage"
       /\ mounted = "yes"
       /\ last.input.valid
       /\ last.input.type = "predictions_refresh"
       /\ last.input.hasList

\* C1: after any sequence of polls, push events and ticks the collection
\* holds at most one record per ticker.
C1_OneRecordPerTicker ==
    impl \in {"provider", "hook"} =>
      \A i, j \in 1..Len(predictions) :
        i # j => TickerOf(predictions[i]) # TickerOf(predictions[j])

\* the k-th item of the snapshot a poll of the provider just merged is for a
\* ticker the collection already held
KnownItem(k) ==
    /\ impl = "provider"
    /\ last.op = "fetchOk"
    /\ k \in 1..Len(last.input)
    /\ PrevGet(last.before, normalizeOne(last.input[k]).ticker) # Undefined

SnapshotList == IF last.op = "fetchOk" THEN last.input ELSE last.input.predictions

\* C3: a full snapshot (poll or predictions_refresh) drops no known ticker, and
\* the tickers it omits come after the snapshot's own tickers.
C3_NoTickerDropped ==
    AppliedSnapshot =>
      /\ TickersOf(last.before) \subseteq TickersOf(predictions)
      /\ \A i, j \in 1..Len(predictions) :
           ( /\ TickerOf(predictions[i]) \notin TickersOf(SnapshotList)
             /\ TickerOf(predictions[j]) \in TickersOf(SnapshotList) ) => j < i

\* C4: a poll reconciliation or tick of the provider leaves every known
\* ticker at its position, so a new ticker comes after all known ones.
C4_PositionsKept ==
    (impl = "provider" /\ last.op \in {"fetchOk", "tick"}) =>
      \A i \in 1..Len(last.before) :
        /\ i <= Len(predictions)
        /\ predictions[i].ticker = last.before[i].ticker

\* C5: stableMerge(stableMerge(C, X), X) = stableMerge(C, X).
C5_Idempotent ==
    (impl = "merge" /\ phase = 2) => predictions = once

\* C6: after the effect cleanup there is no pending reconnect timer and no
\* connecting or open socket, also once the close event has fired.
C6_NothingAfterTeardown ==
    (impl = "hook" /\ mounted = "gone") =>
      /\ timers = {}
      /\ \A s \in 1..MaxSockets : sockets[s] \notin Live

\* a socket of the mounted hook closes in this step
ClosesMounted(s) ==
    /\ mounted = "yes"
    /\ mounted' = "yes"
    /\ sockets[s] \in Live
    /\ sockets'[s] = "CLOSED"

HookConnected == connected /\ wsRef # 0 /\ sockets[wsRef] = "OPEN"

\* C7: while mounted, every close of the socket schedules exactly one
\* reconnect timer; a scheduled attempt is made; once the server accepts
\* connections for good the hook reaches OPEN with connected = true.
C7_Reconnects ==
    /\ [][\A s \in 1..MaxSockets :
            ClosesMounted(s) =>
              /\ timers \subseteq timers'
              /\ Cardinality(timers' \ timers) = 1
              /\ reconnectTimeoutRef' \in timers' \ timers]_vars
    /\ (mounted = "yes" /\ timers # {})
         ~> (mounted # "yes" \/ \E s \in 1..MaxSockets : sockets[s] \in Live)
    /\ (mounted = "yes" /\ accepting) ~> (mounted # "yes" \/ HookConnected)

\* the hook lost its socket, the server then settled, and the hook is
\* connected again through a socket made by a reconnect
C7_Witness ==
    /\ impl = "hook"
    /\ mounted = "yes"
    /\ accepting
    /\ HookConnected
    /\ reconnectTimeoutRef # 0
    /\ timers = {}

\* C8: a failed poll leaves the collection as it was, sets the error flag,
\* clears loading, and the poll timer stays armed.
C8_FailedPollKeepsCollection ==
    (impl \in {"provider", "hook"} /\ last.op = "fetchFail") =>
      /\ predictions = last.before
      /\ error # NoError
      /\ loading = FALSE
      /\ apiTimer

\* a poll failed while the collection held records
C8_Witness ==
    /\ last.op = "fetchFail"
    /\ Len(predictions) > 0
    /\ error # NoError

\* a file the poll endpoint lists: it parses and has ticker and prediction
ValidFile(t) ==
    /\ files[t] # Absent
    /\ files[t] # Corrupt
    /\ Truthy(files[t].ticker)
    /\ files[t].prediction # Undefined

\* the record the collection should hold for the valid file t
FileRecord(t) == [files[t] EXCEPT !.company_name = CompanyName(t)]

\* the collection lists the valid files, one record each, with their values
MatchesFiles ==
    /\ Len(predictions) = Cardinality({t \in Tickers : ValidFile(t)})
    /\ \A t \in Tickers : ValidFile(t) => \E i \in 1..Len(predictions) :
                                            predictions[i] = FileRecord(t)

\* C9: a successful poll of the hook whose answer was read from the files as
\* they are now makes the collection match the server's valid files.
C9_PollConverges ==
    (impl = "hook" /\ last.op = "fetchOk" /\ last.input = DailyPredictions(files))
      => MatchesFiles

\* a file changed, its push was never sent, no socket is open, and the poll
\* alone brought the collection to the server's files
C9_Witness ==
    /\ impl = "hook"
    /\ last.op = "fetchOk"
    /\ last.input = DailyPredictions(files)
    /\ writes > 0
    /\ changed # {}
    /\ OpenSockets = {}
    /\ ~connected
    /\ foreign = 0
    /\ last.before # predictions
    /\ Len(predictions) = 2
    /\ MatchesFiles

\* C10: a message that is malformed, of an unknown type or without a field
\* its type requires changes neither the collection, the error flag nor the
\* connection state, and no exception leaves the handler.
C10_UnusableMessageIgnored ==
    [][(Deliver /\ mounted = "yes" /\ Unusable(inbox[1].msg)) =>
         /\ predictions' = predictions
         /\ error' = error
         /\ connected' = connected
         /\ sockets' = sockets
         /\ mounted' = mounted]_vars

\* the last handler was ws.onmessage of the mounted hook on a well-formed
\* prediction_updated message with a prediction payload
UpdateHandled ==
    /\ impl = "hook"
    /\ mounted = "yes"
    /\ last.op = "onmessage"
    /\ last.input.valid
    /\ last.input.type = "prediction_updated"
    /\ last.input.prediction # Undefined

\* the positions of the collection that hold a record for ticker t
RecordsFor(t) == {i \in 1..Len(predictions) : TickerOf(predictions[i]) = t}

\* final_signal of a record as the cards read it
SignalOf(p) == IF p.prediction = Undefined THEN Undef ELSE p.prediction.final_signal

\* C11: after a prediction_updated push for a ticker the collection did not
\* hold, the collection holds exactly one record for the event's ticker and
\* its signal is the payload's final_signal.
C11_PushAddsTheEventsTicker ==
    (UpdateHandled /\ last.input.ticker \notin TickersOf(last.before)) =>
      /\ Cardinality(RecordsFor(last.input.ticker)) = 1
      /\ \A i \in RecordsFor(last.input.ticker) :
           SignalOf(predictions[i]) = SignalOf(last.input.prediction)

\* a record holds a name better than its bare ticker
BetterName(p) == Truthy(p.company_name) /\ p.company_name # p.ticker

\* C12: once a record holds a company_name different from its ticker, no
\* later reconciliation leaves the ticker's record with company_name equal
\* to the ticker, empty or undefined.
C12_NameNeverRegresses ==
    (impl = "merge" /\ last.op = "stableMerge") =>
      \A i \in 1..Len(last.before) :
        BetterName(last.before[i]) =>
          \A j \in 1..Len(predictions) :
            predictions[j].ticker = last.before[i].ticker => BetterName(predictions[j])

\* C13: a tick changes neither the sequence of tickers nor any record's
\* company_name, and a tick on an empty collection leaves it empty.
C13_TickKeepsIdentity ==
    (impl = "provider" /\ last.op = "tick") =>
      /\ Len(predictions) = Len(last.before)
      /\ \A i \in 1..Len(last.before) :
           /\ predictions[i].ticker = last.before[i].ticker
           /\ predictions[i].company_name = last.before[i].company_name
      /\ (last.before = <<>> => predictions = <<>>)

\* a tick changed the live fields of a collection of two named records
C13_Witness ==
    /\ impl = "provider"
    /\ last.op = "tick"
    /\ Len(last.before) = 2
    /\ \A i \in 1..2 : /\ BetterName(last.before[i])
                       /\ LiveFields(predictions[i]) # LiveFields(last.before[i])

\* score and sentiment within [-1, 1], articleCount within [0, 200]
InRange(p) ==
    /\ p.prediction.combined_score >= 0 - 100
    /\ p.prediction.combined_score <= 100
    /\ p.average_sentiment >= 0 - 100
    /\ p.average_sentiment <= 100
    /\ p.total_articles >= 0
    /\ p.total_articles <= 200

\* C14: in every reachable state of the provider every record has score and
\* sentiment within [-1, 1] and articleCount within [0, 200].
C14_ValuesInRange ==
    impl = "provider" => \A i \in 1..Len(predictions) : InRange(predictions[i])

\* C15: a tick of a collection whose values are in range leaves every record
\* with articleCount within [0, 200] and score and sentiment within [-1, 1],
\* so any number of consecutive ticks does.
C15_TicksStayInRange ==
    ( /\ impl = "provider"
      /\ last.op = "tick"
      /\ \A i \in 1..Len(last.before) : InRange(last.before[i]) )
      => \A i \in 1..Len(predictions) : InRange(predictions[i])

\* the last tick met the upper bound of articleCount and of the score
C15_Witness ==
    /\ impl = "provider"
    /\ last.op = "tick"
    /\ ticks = MaxTicks
    /\ \E i \in 1..Len(predictions) :
         /\ last.before[i].total_articles = 198
         /\ predictions[i].total_articles = 200
         /\ last.before[i].prediction.combined_score = 95
         /\ predictions[i].prediction.combined_score = 99


\* a broadcast of the API service has just run
Broadcasted == impl = "server" /\ last.op \in {"change", "refresh"} /\ last.input.sent

\* the copies of the last broadcast that went to peer p
CopiesTo(p) == Cardinality({i \in 1..Len(inbox) : inbox[i].to = p})

\* C16: a broadcast sends the event exactly once to every registered peer
\* that is OPEN at that moment and whose send does not throw, nothing to
\* any other peer, and removes from the registry exactly the peers whose
\* send threw; a throwing send does not keep the event from the others.
C16_BroadcastReachesOpenPeers ==
    Broadcasted =>
      LET b == last.input
          open == {c \in b.clients : b.ready[c] = "OPEN"}
      IN /\ \A p \in 1..MaxSockets :
              CopiesTo(p) = IF p \in open \ b.throws THEN 1 ELSE 0
         /\ \A i \in 1..Len(inbox) : inbox[i].msg = b.msg
         /\ clients = b.clients \ b.throws

\* a broadcast in which one send threw and another peer was still served
C16_Witness ==
    /\ Broadcasted
    /\ last.input.throws # {}
    /\ inbox # <<>>
    /\ clients = last.input.clients \ last.input.throws

\* C17: a prediction file that appears in the watched directory raises the
\* watcher's event for its ticker, as a rewritten file does.
C17_AddedFileIsBroadcast ==
    [][\A t \in Tickers :
         ( /\ impl = "server"
           /\ files # NoDirectory
           /\ files[t] = Absent
           /\ files'[t] \notin {Absent, Corrupt} )
         => t \in changed']_vars

\* C18: every firing of the 2 minute interval with a peer connected
\* broadcasts one predictions_refresh listing every valid prediction file,
\* also when there is no valid file.
C18_EveryFiringRefreshes ==
    (impl = "server" /\ last.op = "refresh" /\ files # NoDirectory)
      => IF last.input.sent
         THEN last.input.msg = RefreshMessage(DailyPredictions(files))
         ELSE clients = {}

\* C19: GET /predictions/daily answers 200 with an empty predictions array
\* when the directory holds no prediction file and when it does not exist.
C19_EmptyOrMissingDirectory ==
    ( /\ impl = "server"
      /\ last.op = "get"
      /\ (files = NoDirectory \/ \A t \in Tickers : files[t] = Absent) )
      => /\ last.input.status = 200
         /\ last.input.predictions = <<>>


\* C20: on start the collection is the one persist wrote last when the slot
\* holds an object with a non-empty predictions array, and is empty when
\* the slot is absent, unparsable or holds anything else.
C20_StartFromCache ==
    last.op = "construct" =>
      IF last.input \in OddSlots THEN predictions = <<>>
      ELSE IF Len(last.input.predictions) > 0
           THEN predictions = last.input.predictions
           ELSE predictions = <<>>

\* the provider started from a persisted collection of one record
C20_Witness ==
    /\ last.op = "construct"
    /\ last.input \notin OddSlots
    /\ Len(last.input.predictions) = 1
    /\ predictions = last.input.predictions


\* the confidenceLevel table of the specification, by articleCount
ArticleConfidence(n) ==
    IF n >= 30 THEN "HIGH" ELSE IF n >= 15 THEN "MEDIUM" ELSE "LOW"

\* C24: after a tick every record's confidence_level is the one the
\* articleCount table gives for its new total_articles.
C24_ConfidenceFromArticles ==
    (impl = "provider" /\ last.op = "tick")
      => \A i \in 1..Len(predictions) :
           predictions[i].prediction.confidence_level
             = ArticleConfidence(predictions[i].total_articles)

\* the threshold table of the specification, with the BUY threshold the
\* code configures
ThresholdSignal(score) ==
    CASE score >= 55 -> "STRONG_BUY"
      [] score < 55 /\ score >= BuyThreshold -> "BUY"
      [] score <= 0 - 55 -> "STRONG_SELL"
      [] score > 0 - 55 /\ score <= 0 - BuyThreshold -> "SELL"
      [] OTHER -> "HOLD"

\* C25: after a tick every record's final_signal is the one the threshold
\* table gives for its new score, and its direction is BULLISH exactly for
\* BUY and STRONG_BUY, BEARISH exactly for SELL and STRONG_SELL, NEUTRAL
\* otherwise.
C25_SignalFromScore ==
    (impl = "provider" /\ last.op = "tick")
      => \A i \in 1..Len(predictions) :
           LET pr == predictions[i].prediction
           IN /\ pr.final_signal = ThresholdSignal(pr.combined_score)
              /\ (pr.direction = "BULLISH") = (pr.final_signal \in {"BUY", "STRONG_BUY"})
              /\ (pr.direction = "BEARISH") = (pr.final_signal \in {"SELL", "STRONG_SELL"})
              /\ (pr.direction = "NEUTRAL")
                   = (pr.final_signal \notin {"BUY", "STRONG_BUY", "SELL", "STRONG_SELL"})

\* a tick has put one record's score on the BUY threshold and another's on
\* the STRONG_SELL threshold
C25_Witness ==
    /\ impl = "provider"
    /\ last.op = "tick"
    /\ \E i \in 1..Len(predictions) :
         /\ predictions[i].prediction.combined_score = BuyThreshold
         /\ last.before[i].prediction.combined_score < BuyThreshold
    /\ \E i \in 1..Len(predictions) :
         predictions[i].prediction.combined_score = 0 - 55

\* C26: a record stableMerge stores for an unseen ticker whose payload has a
\* score and no signal or direction carries the signal and direction derived
\* from that score.
C26_MissingSignalDerived ==
    (impl = "merge" /\ last.op = "stableMerge" /\ phase = 1)
      => \A i \in 1..Len(incoming) :
           ( /\ incoming[i].prediction.final_signal = Undef
             /\ incoming[i].prediction.direction = Undef
             /\ \A k \in 1..Len(last.before) : last.before[k].ticker # incoming[i].ticker )
           => LET pr == predictions[i].prediction
              IN /\ pr.final_signal = ThresholdSignal(pr.combined_score)
                 /\ pr.direction = directionFromSignal(pr.final_signal)

\* C28: a record just created from a poll payload, not yet ticked, does not
\* carry _simulated = true.
C28_SimulatedOnlyAfterTick ==
    (impl = "provider" /\ last.op = "fetchOk")
      => \A i \in 1..Len(predictions) :
           (\A k \in 1..Len(last.before) : last.before[k].ticker # predictions[i].ticker)
             => ~predictions[i]._simulated


\* the records a collection holds for ticker t
HeldFor(list, t) == {list[k] : k \in {i \in 1..Len(list) : list[i].ticker = t}}

\* C22: when a prediction_updated push for t, carrying the file's current
\* content, has just been applied and the response applied next was read
\* before the file changed, the collection still holds the pushed record.
C22_SlowPollKeepsPush ==
    [][\A t \in Tickers :
         ( /\ impl = "hook"
           /\ last.op = "onmessage"
           /\ last.input.valid
           /\ last.input.type = "prediction_updated"
           /\ last.input.ticker = t
           /\ last.input.prediction = files[t]
           /\ HeldFor(predictions, t) # {}
           /\ last'.op = "fetchOk"
           /\ DailyEntry(files, t) # <<>>
           /\ \A k \in 1..Len(last'.input) : last'.input[k] # DailyEntry(files, t)[1] )
         => HeldFor(predictions', t) = HeldFor(predictions, t)]_vars

\* live sockets and pending reconnect timers of the hook
LiveSockets == {s \in 1..MaxSockets : sockets[s] \in Live}

\* C29: while the hook is mounted it has at most one socket that is
\* connecting or open and at most one pending reconnect timer.
C29_OneSocketOneTimer ==
    (impl = "hook" /\ mounted = "yes")
      => /\ Cardinality(LiveSockets) <= 1
         /\ Cardinality(timers) <= 1


\* the reconnect timer has just replaced a closed socket by a new one
C29_Witness ==
    /\ impl = "hook"
    /\ mounted = "yes"
    /\ last.op = "reconnect"
    /\ LiveSockets = {wsRef}
    /\ sockets[wsRef] = "CONNECTING"
    /\ timers = {}


\* C30: the registry holds only peers that connected and have had no close
\* or error event: a peer enters it on its connection event only, is absent
\* after its close or error event, and the health endpoint reports the
\* registry's size.
C30_RegistryTracksPeers ==
    [][impl = "server" =>
         /\ \A p \in clients' : sockets'[p] \in {"OPEN", "CLOSING"}
         /\ \A p \in clients' \ clients : sockets[p] = "FREE" /\ last'.op = "connection"
         /\ last'.op = "connection" => Cardinality(clients' \ clients) = 1
         /\ last'.op \in {"close", "error"} => last'.input \notin clients'
         /\ last'.op = "health"
              => last'.input.websocket_clients = Cardinality(clients')]_vars

\* a peer's error event removed it from the registry while another peer
\* stays registered
C30_Witness ==
    /\ impl = "server"
    /\ last.op = "error"
    /\ last.input \notin clients
    /\ sockets[last.input] = "OPEN"
    /\ clients # {}


\* the watcher's handler has run for t in this step
ChangeHandled(t) == last'.op = "change" /\ t \in changed /\ t \notin changed'

\* C27: a change whose file cannot be read or parsed broadcasts nothing and
\* leaves the registry as it is, and the watcher goes on: later rewrites
\* still raise its event and a change of a readable file is broadcast.
C27_FailedChangeIsDropped ==
    [][\A t \in Tickers :
         impl = "server" =>
           /\ (ChangeHandled(t) /\ files[t] \in {Corrupt, Absent})
                => /\ ~last'.input.sent
                   /\ inbox' = inbox
                   /\ clients' = clients
           /\ (ChangeHandled(t) /\ files[t] \notin {Corrupt, Absent})
                => /\ last'.input.sent
                   /\ last'.input.msg = UpdatedMessage(t, files[t])
                   /\ \A p \in SendTargets \ last'.input.throws :
                        \E i \in 1..Len(inbox') : inbox'[i].to = p
           /\ (files # NoDirectory /\ files[t] # Absent /\ files'[t] # files[t])
                => t \in changed']_vars

\* a change of an unparsable file was dropped with a peer registered and
\* another change waiting
C27_Witness ==
    /\ impl = "server"
    /\ last.op = "change"
    /\ ~last.input.sent
    /\ clients # {}
    /\ changed # {}


\* a poll merge, or a tick of a non-empty collection, has just run
Reconciled(l) == l.op = "fetchOk" \/ (l.op = "tick" /\ Len(l.before) > 0)

\* C23: after every successful poll reconciliation and every tick of a
\* non-empty collection the cache slot holds exactly the new collection.
C23_CacheHoldsCollection ==
    (impl = "provider" /\ Reconciled(last)) => cache.predictions = predictions

\* C23 as amended: the slot holds exactly the new collection unless
\* localStorage.setItem throws, and then it holds what it held before.
C23_CacheHoldsCollectionUnlessFull ==
    [][(impl = "provider" /\ Reconciled(last'))
         => IF IsFull(cache) THEN cache' = cache
            ELSE cache' = persist(predictions')]_vars

\* a tick has just been persisted
C23_Witness ==
    /\ impl = "provider"
    /\ last.op = "tick"
    /\ Len(last.before) > 0
    /\ predictions # last.before
    /\ cache = persist(predictions)


\* what a tick may make of a collection
TickResults(list) ==
    IF Len(list) = 0 THEN {list}
    ELSE {[i \in 1..Len(list) |-> applyTick(list[i], js[i])] :
            js \in [1..Len(list) -> Jitters]}

\* C21: every poll merge and every tick is applied to the collection as the
\* step before it left it, whatever requests are in flight: the merge is
\* stableMerge of the latest collection and the response, the tick is the
\* tick of the latest collection, and no other step changes the collection.
C21_UpdatesAreSerial ==
    [][impl = "provider" =>
         /\ last'.op = "fetchOk" => predictions' = stableMerge(predictions, last'.input)
         /\ last'.op = "tick" => predictions' \in TickResults(predictions)
         /\ last'.op \notin {"fetchOk", "tick"} => predictions' = predictions]_vars

\* a response was merged while another request was in flight, after a tick:
\* the ticked record is still held and the later file's record was added
C21_Witness ==
    /\ impl = "provider"
    /\ last.op = "fetchOk"
    /\ Len(inflight) > 0
    /\ ticks > 0
    /\ Len(predictions) > Len(last.before)
    /\ \E i \in 1..Len(predictions) :
         /\ predictions[i].ticker = "AAPL"
         /\ predictions[i].prediction.reasoning # "x"

====
